---------------------------- MODULE Spec2Model ----------------------------
(* A model of packages/create-slate-theme/create-slate-theme.js:           *)
(* createSlateTheme(name, starter, flags) and the helpers it calls.        *)
(*                                                                         *)
(* Text is modelled by its parts.  A project name is a sequence of         *)
(* characters.  A file name is a sequence of text pieces, so that          *)
(* "node_modules.bak" is <<"node_modules", ".bak">>; the pieces are chosen *)
(* so that the text "node_modules" occurs in a name only as a whole piece. *)
(* A path is a sequence of file names.  A directory is the set of the      *)
(* paths that exist at or below it, <<>> being the directory itself, so    *)
(* that {} is a directory that does not exist and {<<>>} an empty one.     *)
EXTENDS Naturals, Integers, Sequences, FiniteSets, TLC

VARIABLES
    pc,              \* position of the current invocation of createSlateTheme
    run,             \* number of invocations started in this process
    name,            \* argument: project name
    starter,         \* argument: starter reference
    flags,           \* argument: the caller's flags
    defaultOptions,  \* config.defaultOptions, shared by all invocations
    root,            \* path.resolve(name)
    preRoot,         \* the directory at root as the invocation found it
    fsRoot,          \* the directory at root now
    starterTree,     \* what the starter held when it was fetched
    cwd,             \* process.cwd()
    prevDir,         \* installThemeDeps' saved working directory
    exitCode,        \* <<c>> once process.exit(c) was called, NoExit before
    events,          \* analytics events sent by this invocation
    spawned,         \* subprocesses started by this invocation
    listed,          \* conflicting entries printed by checkDirForConflicts
    strategy,        \* fetch strategies attempted by this invocation
    started,         \* steps this invocation began, in order
    completed,       \* steps this invocation completed without failure, in order
    failure          \* why this invocation failed, "none" otherwise

vars == <<pc, run, name, starter, flags, defaultOptions, root, preRoot, fsRoot,
          starterTree, cwd, prevDir, exitCode, events, spawned, listed,
          strategy, started, completed, failure>>

-----------------------------------------------------------------------------
(* Bounds and input sets *)

MaxRuns == 2

NoDir == {}
EmptyDir == { <<>> }
NoExit == <<>>
NoHost == [type |-> "none", user |-> <<>>, project |-> <<>>, committish |-> ""]

GIT == <<".git">>
HG == <<".hg">>
IDEA == <<".idea">>
README == <<"README.md">>
NM == <<"node_modules">>
NMBAK == <<"node_modules", ".bak">>
SRC == <<"src">>
HEAD == <<"HEAD">>
ENVFILE == <<".env">>

\* Project names: "", "a", "a-b", "A", ".a", "_a", "a ", "a!", "fs"
Names ==
    { <<>>, <<"a">>, <<"a", "-", "b">>, <<"A">>, <<".", "a">>, <<"_", "a">>,
      <<"a", " ">>, <<"a", "!">>, <<"f", "s">> }

OptionKeys == {"skipInstall", "verbose"}

Flags == UNION { [D -> BOOLEAN] : D \in SUBSET OptionKeys }

\* git@github.com:org/starter.git#v2, org/starter, ../starter,
\* node_modules/pkg/starter
Starters ==
    { [scheme |-> "git@github.com:", segs |-> <<<<"org">>, <<"starter">>>>,
       committish |-> "v2"],
      [scheme |-> "", segs |-> <<<<"org">>, <<"starter">>>>, committish |-> ""],
      [scheme |-> "", segs |-> <<<<"..">>, <<"starter">>>>, committish |-> ""],
      [scheme |-> "", segs |-> <<NM, <<"pkg">>, <<"starter">>>>,
       committish |-> ""] }

IsPrefix(p, q) == Len(p) <= Len(q) /\ SubSeq(q, 1, Len(p)) = p

PrefixClosed(d) ==
    \A p \in d : \A i \in 0..(Len(p) - 1) : SubSeq(p, 1, i) \in d

TreePaths ==
    { <<>>, <<GIT>>, <<GIT, HEAD>>, <<HG>>, <<NMBAK>>, <<SRC>>, <<SRC, NM>> }

\* The trees an existing local starter may hold.
Trees == { d \in SUBSET TreePaths : <<>> \in d /\ PrefixClosed(d) }

\* The work trees a repository may hold: git tracks no entry named .git.
RepoTrees == { d \in Trees : \A p \in d : \A i \in 1..Len(p) : p[i] # GIT }

\* The states the project root may be in when createSlateTheme is called.
PreRoots ==
    {NoDir} \cup { EmptyDir \cup d : d \in SUBSET { <<GIT>>, <<README>> } }


-----------------------------------------------------------------------------
(* Library functions, by what they do *)

LowerChars == {"a", "b", "f", "s"}
UpperChars == {"A"}
SpecialChars == {"!"}              \* of ~ ' ! ( ) *
UrlSafeChars == LowerChars \cup UpperChars \cup SpecialChars \cup {"-", "_", "."}
Builtins == { <<"f", "s">> }       \* names of core modules

\* validate-npm-package-name: the errors found in a name
NameErrors(n) ==
    { e \in {"empty", "leadingDot", "leadingUnderscore", "spaces", "urlUnsafe"} :
        \/ e = "empty" /\ Len(n) = 0
        \/ e = "leadingDot" /\ Len(n) > 0 /\ n[1] = "."
        \/ e = "leadingUnderscore" /\ Len(n) > 0 /\ n[1] = "_"
        \/ e = "spaces" /\ Len(n) > 0 /\ (n[1] = " " \/ n[Len(n)] = " ")
        \/ e = "urlUnsafe" /\ \E i \in 1..Len(n) : n[i] \notin UrlSafeChars }

\* validate-npm-package-name: the warnings found in a name
NameWarnings(n) ==
    { w \in {"coreModule", "capitals", "special"} :
        \/ w = "coreModule" /\ n \in Builtins
        \/ w = "capitals" /\ \E i \in 1..Len(n) : n[i] \in UpperChars
        \/ w = "special" /\ \E i \in 1..Len(n) : n[i] \in SpecialChars }

validForNewPackages(n) == NameErrors(n) = {} /\ NameWarnings(n) = {}

HostedSchemes == {"git@github.com:", "github:"}

\* hosted-git-info fromUrl: a known host with user/project, or the
\* user/project shortcut (whose first character is no dot); NoHost otherwise
fromUrl(s) ==
    IF Len(s.segs) = 2 /\ s.scheme \in HostedSchemes
    THEN [type |-> "github", user |-> s.segs[1], project |-> s.segs[2],
          committish |-> s.committish]
    ELSE IF Len(s.segs) = 2 /\ s.scheme = "" /\ s.segs[1] \notin {<<".">>, <<"..">>}
    THEN [type |-> "github", user |-> s.segs[1], project |-> s.segs[2],
          committish |-> s.committish]
    ELSE NoHost

\* Object.assign(target, source): target is changed and returned
ObjectAssign(target, source) ==
    [k \in DOMAIN target \cup DOMAIN source |->
        IF k \in DOMAIN source THEN source[k] ELSE target[k]]

basename(file) == file[Len(file)]

\* the immediate entries of a directory (fs.readdirSync)
readdirSync(dir) == { p[1] : p \in { q \in dir : q # <<>> } }

\* fs.remove(p): p and everything below it
remove(dir, p) == { q \in dir : ~IsPrefix(p, q) }

\* fs.ensureDirSync, fs.mkdirp: the directory exists afterwards
mkdirp(dir) == dir \cup EmptyDir

-----------------------------------------------------------------------------
(* Configuration (create-slate-theme.config) *)

\* the allow-list: version-control metadata and editor project files
validFiles == {GIT, HG, IDEA}

InitialDefaultOptions == [skipInstall |-> FALSE, verbose |-> FALSE]

-----------------------------------------------------------------------------
(* Helpers of createSlateTheme *)

\* line 14: options is config.defaultOptions itself
options == defaultOptions

\* /^\.(git|hg)$/.test(base)
IsVcsBase(base) == base = <<".git">> \/ base = <<".hg">>

\* /node_modules/.test(file): the text occurs anywhere in the path string
HasNodeModulesText(file) ==
    \E i \in 1..Len(file) : \E j \in 1..Len(file[i]) : file[i][j] = "node_modules"

\* the filter given to fs.copy
copyFilter(file) == ~IsVcsBase(basename(file)) /\ ~HasNodeModulesText(file)

\* fs.copy(src, dest, {filter}): the paths of tree that are copied.  The
\* filter is asked about src itself, then about every entry of a directory
\* that passed it; what is below a rejected directory is never visited.
copied(src, tree) ==
    { p \in tree : \A i \in 0..Len(p) : copyFilter(src \o SubSeq(p, 1, i)) }

\* mutant: the filter is forgotten, every entry counts as a conflict
conflictsOfEveryFile(files) == files

\* checkDirForConflicts, line 67
conflictsOf(files) == { file \in files : file \notin validFiles }

\* mutant: the test of hostedInfo is inverted
selectStrategyInverted(hostedInfo) ==
    IF hostedInfo = NoHost THEN "clone" ELSE "copy"

\* getStarterTheme, lines 155-159
selectStrategy(hostedInfo) == IF hostedInfo # NoHost THEN "clone" ELSE "copy"

\* cloneFromGit, lines 127-138: the command it spawns
gitCloneCommand(hostInfo, dest, verbose) ==
    [cmd |-> "git clone",
     branch |-> hostInfo.committish,
     url |-> <<"git@github.com:", hostInfo.user, hostInfo.project, ".git">>,
     dest |-> dest,
     stdio |-> IF verbose THEN "inherit" ELSE "pipe"]

installCommand(useYarn, dir) ==
    [cmd |-> IF useYarn THEN "yarnpkg" ELSE "npm install",
     branch |-> "", url |-> <<>>, dest |-> dir, stdio |-> "inherit"]

Event(type, data) == [type |-> type, data |-> data]

Settled == {"resolved", "rejected"}

-----------------------------------------------------------------------------
(* State machine *)

Init ==
    /\ pc = "idle"
    /\ run = 0
    /\ name = <<>>
    /\ starter = CHOOSE s \in Starters : TRUE
    /\ flags = [k \in {} |-> TRUE]
    /\ defaultOptions = InitialDefaultOptions
    /\ root = <<>>
    /\ preRoot = NoDir
    /\ fsRoot = NoDir
    /\ starterTree = NoDir
    /\ cwd = <<>>
    /\ prevDir = <<>>
    /\ exitCode = NoExit
    /\ events = <<>>
    /\ spawned = <<>>
    /\ listed = {}
    /\ strategy = {}
    /\ started = <<>>
    /\ completed = <<>>
    /\ failure = "none"

\* lines 12-14: a call of createSlateTheme
Invoke ==
    /\ pc = "idle"
    /\ run < MaxRuns
    /\ \E n \in Names, s \in Starters, f \in Flags, d \in PreRoots :
        /\ name' = n
        /\ starter' = s
        /\ flags' = f
        /\ root' = cwd \o <<n>>
        /\ defaultOptions' = ObjectAssign(defaultOptions, f)
        /\ preRoot' = d
        /\ fsRoot' = d
    /\ run' = run + 1
    /\ pc' = "checkAppName"
    /\ UNCHANGED <<starterTree, cwd, prevDir, exitCode, events, spawned, listed,
                   strategy, started, completed, failure>>

\* line 37: the promise createSlateTheme returned has settled and its caller
\* goes on; the record of the finished invocation is dropped
Settle ==
    /\ pc \in Settled
    /\ pc' = "idle"
    /\ name' = <<>>
    /\ starter' = CHOOSE s \in Starters : TRUE
    /\ flags' = [k \in {} |-> TRUE]
    /\ root' = <<>>
    /\ preRoot' = NoDir
    /\ fsRoot' = NoDir
    /\ starterTree' = NoDir
    /\ prevDir' = <<>>
    /\ events' = <<>>
    /\ spawned' = <<>>
    /\ listed' = {}
    /\ strategy' = {}
    /\ started' = <<>>
    /\ completed' = <<>>
    /\ failure' = "none"
    /\ UNCHANGED <<run, defaultOptions, cwd, exitCode>>

Exit(step, why) ==
    /\ pc' = "exited"
    /\ exitCode' = <<1>>
    /\ started' = Append(started, step)
    /\ failure' = why
    /\ UNCHANGED completed

Reject(step, why) ==
    /\ pc' = "rejected"
    /\ started' = Append(started, step)
    /\ failure' = why
    /\ UNCHANGED <<completed, exitCode>>

Done(step, next) ==
    /\ pc' = next
    /\ started' = Append(started, step)
    /\ completed' = Append(completed, step)
    /\ UNCHANGED <<failure, exitCode>>

\* mutant: the messages are printed but process.exit(1) is missing
CheckAppNameNoExit ==
    /\ pc = "checkAppName"
    /\ Done("checkAppName", "ensureDirSync")
    /\ UNCHANGED <<run, name, starter, flags, defaultOptions, root, preRoot,
                   fsRoot, starterTree, cwd, prevDir, events, spawned, listed,
                   strategy>>

\* lines 16, 39-52
CheckAppName ==
    /\ pc = "checkAppName"
    /\ IF validForNewPackages(name)
       THEN Done("checkAppName", "ensureDirSync")
       ELSE Exit("checkAppName", "invalidName")
    /\ UNCHANGED <<run, name, starter, flags, defaultOptions, root, preRoot,
                   fsRoot, starterTree, cwd, prevDir, events, spawned, listed,
                   strategy>>

\* line 17
EnsureDirSync ==
    /\ pc = "ensureDirSync"
    /\ fsRoot' = mkdirp(fsRoot)
    /\ Done("ensureDirSync", "checkDirForConflicts")
    /\ UNCHANGED <<run, name, starter, flags, defaultOptions, root, preRoot,
                   starterTree, cwd, prevDir, events, spawned, listed, strategy>>

\* lines 18, 65-85
CheckDirForConflicts ==
    /\ pc = "checkDirForConflicts"
    /\ LET conflicts == conflictsOf(readdirSync(fsRoot))
       IN IF conflicts # {}
          THEN /\ listed' = conflicts
               /\ Exit("checkDirForConflicts", "conflicts")
          ELSE /\ listed' = listed
               /\ Done("checkDirForConflicts", "analytics")
    /\ UNCHANGED <<run, name, starter, flags, defaultOptions, root, preRoot,
                   fsRoot, starterTree, cwd, prevDir, events, spawned, strategy>>

\* lines 20-26: analytics.init() is awaited, then the start event is sent
AnalyticsStart ==
    /\ pc = "analytics"
    /\ \/ /\ events' = Append(events,
                Event("create-slate-theme:start",
                      [starter |-> starter,
                       skipInstall |-> options.skipInstall,
                       verbose |-> options.verbose]))
          /\ Done("start", "getStarterTheme")
       \/ /\ events' = events
          /\ Reject("start", "analyticsFailed")
    /\ UNCHANGED <<run, name, starter, flags, defaultOptions, root, preRoot,
                   fsRoot, starterTree, cwd, prevDir, spawned, listed, strategy>>

\* lines 30, 152-156, 126-150
CloneFromGit ==
    /\ pc = "getStarterTheme"
    /\ selectStrategy(fromUrl(starter)) = "clone"
    /\ strategy' = strategy \cup {"clone"}
    /\ spawned' = Append(spawned,
                         gitCloneCommand(fromUrl(starter), root, options.verbose))
    /\ \/ \* git clone needs an empty destination; .git is removed afterwards
          /\ fsRoot = EmptyDir
          /\ \E repo \in RepoTrees :
                /\ starterTree' = repo
                /\ fsRoot' = remove(repo \cup {<<GIT>>, <<GIT, HEAD>>}, <<GIT>>)
          /\ Done("getStarterTheme", "envCreate")
       \/ \* the subprocess or the removal failed: .catch, process.exit(1)
          /\ UNCHANGED <<starterTree, fsRoot>>
          /\ Exit("getStarterTheme", "cloneFailed")
    /\ UNCHANGED <<run, name, starter, flags, defaultOptions, root, preRoot,
                   cwd, prevDir, events, listed>>

\* lines 30, 152-159, 107-123
CopyFromDir ==
    /\ pc = "getStarterTheme"
    /\ selectStrategy(fromUrl(starter)) = "copy"
    /\ strategy' = strategy \cup {"copy"}
    /\ \/ \* !fs.existsSync(starter): throw
          /\ starterTree' = NoDir
          /\ fsRoot' = fsRoot
          /\ Reject("getStarterTheme", "missingStarter")
       \/ \E tree \in Trees :
            /\ starterTree' = tree
            /\ \/ /\ fsRoot' = mkdirp(fsRoot) \cup copied(starter.segs, tree)
                  /\ Done("getStarterTheme", "envCreate")
               \/ \* fs.copy fails part-way; nothing is rolled back
                  /\ \E part \in SUBSET copied(starter.segs, tree) :
                        /\ PrefixClosed(part)
                        /\ part # copied(starter.segs, tree)
                        /\ fsRoot' = mkdirp(fsRoot) \cup part
                  /\ Reject("getStarterTheme", "copyFailed")
    /\ UNCHANGED <<run, name, starter, flags, defaultOptions, root, preRoot,
                   cwd, prevDir, events, spawned, listed>>

\* mutant: env.create is not awaited, so its failure is not seen
EnvCreateNotAwaited ==
    /\ pc = "envCreate"
    /\ \/ /\ fsRoot' = fsRoot \cup {<<ENVFILE>>}
          /\ Done("envCreate", "installThemeDeps")
       \/ /\ fsRoot' = fsRoot
          /\ pc' = "installThemeDeps"
          /\ started' = Append(started, "envCreate")
          /\ UNCHANGED <<completed, failure, exitCode>>
    /\ UNCHANGED <<run, name, starter, flags, defaultOptions, root, preRoot,
                   starterTree, cwd, prevDir, events, spawned, listed, strategy>>

\* line 31
EnvCreate ==
    /\ pc = "envCreate"
    /\ \/ /\ fsRoot' = fsRoot \cup {<<ENVFILE>>}
          /\ Done("envCreate", "installThemeDeps")
       \/ /\ fsRoot' = fsRoot
          /\ Reject("envCreate", "envFailed")
    /\ UNCHANGED <<run, name, starter, flags, defaultOptions, root, preRoot,
                   starterTree, cwd, prevDir, events, spawned, listed, strategy>>

\* mutant: the early return for skipInstall is missing
InstallThemeDepsNoSkip ==
    /\ pc = "installThemeDeps"
    /\ prevDir' = cwd
    /\ cwd' = root
    /\ \E useYarn \in BOOLEAN :
          spawned' = Append(spawned, installCommand(useYarn, root))
    /\ pc' = "installing"
    /\ started' = Append(started, "installThemeDeps")
    /\ UNCHANGED <<completed, failure, exitCode>>
    /\ UNCHANGED <<run, name, starter, flags, defaultOptions, root, preRoot,
                   fsRoot, starterTree, events, listed, strategy>>

\* lines 32, 88-101
InstallThemeDeps ==
    /\ pc = "installThemeDeps"
    /\ IF options.skipInstall
       THEN /\ Done("installThemeDeps", "analyticsSuccess")
            /\ UNCHANGED <<prevDir, cwd, spawned>>
       ELSE /\ prevDir' = cwd
            /\ cwd' = root
            /\ \E useYarn \in BOOLEAN :
                  spawned' = Append(spawned, installCommand(useYarn, root))
            /\ pc' = "installing"
            /\ started' = Append(started, "installThemeDeps")
            /\ UNCHANGED <<completed, failure, exitCode>>
    /\ UNCHANGED <<run, name, starter, flags, defaultOptions, root, preRoot,
                   fsRoot, starterTree, events, listed, strategy>>

\* line 103: the package manager's subprocess ends
InstallExit ==
    /\ pc = "installing"
    /\ \/ /\ cwd' = prevDir
          /\ fsRoot' = fsRoot \cup {<<NM>>}
          /\ pc' = "analyticsSuccess"
          /\ completed' = Append(completed, "installThemeDeps")
          /\ failure' = failure
       \/ /\ pc' = "rejected"
          /\ failure' = "installFailed"
          /\ UNCHANGED <<cwd, fsRoot, completed>>
    /\ UNCHANGED <<run, name, starter, flags, defaultOptions, root, preRoot,
                   starterTree, prevDir, exitCode, events, spawned, listed,
                   strategy, started>>

\* lines 34-36
AnalyticsSuccess ==
    /\ pc = "analyticsSuccess"
    /\ events' = Append(events, Event("create-slate-theme:success", [x \in {} |-> TRUE]))
    /\ Done("success", "resolved")
    /\ UNCHANGED <<run, name, starter, flags, defaultOptions, root, preRoot,
                   fsRoot, starterTree, cwd, prevDir, spawned, listed, strategy>>

Next ==
    \/ Invoke
    \/ CheckAppName
    \/ EnsureDirSync
    \/ CheckDirForConflicts
    \/ AnalyticsStart
    \/ CloneFromGit
    \/ CopyFromDir
    \/ EnvCreate
    \/ InstallThemeDeps
    \/ InstallExit
    \/ AnalyticsSuccess
    \/ Settle

Spec == Init /\ [][Next]_vars

-----------------------------------------------------------------------------
(* Properties *)

Has(seq, x) == \E i \in 1..Len(seq) : seq[i] = x

PackageManagerSpawned ==
    \E i \in 1..Len(spawned) : spawned[i].cmd \in {"yarnpkg", "npm install"}

GitSpawned == \E i \in 1..Len(spawned) : spawned[i].cmd = "git clone"

EventSent(type) == \E i \in 1..Len(events) : events[i].type = type

\* the working directory when the current invocation was made (line 13)
CwdAtInvoke == SubSeq(root, 1, Len(root) - 1)

Order ==
    <<"checkAppName", "ensureDirSync", "checkDirForConflicts", "start",
      "getStarterTheme", "envCreate", "installThemeDeps", "success">>

\* C1: once checkAppName has run on a name that fails package-name
\* validation, the process has exited with code 1, the project root is as it
\* was found (not created, not changed), and no analytics event, fetch,
\* environment initialization or installation has happened.
C1_InvalidNameExitsBeforeAnyEffect ==
    (pc \notin {"idle", "checkAppName"} /\ ~validForNewPackages(name)) =>
        /\ pc = "exited"
        /\ exitCode = <<1>>
        /\ fsRoot = preRoot
        /\ events = <<>>
        /\ strategy = {}
        /\ spawned = <<>>
        /\ started = <<"checkAppName">>
        /\ completed = <<>>
        /\ cwd = CwdAtInvoke

C1_Witness ==
    /\ pc = "exited"
    /\ failure = "invalidName"
    /\ name = <<"a", "!">>
    /\ preRoot = NoDir
    /\ fsRoot = NoDir

\* C2: for a project root that exists before the run, checkDirForConflicts
\* succeeds and the flow continues when every immediate entry is allow-listed
\* (the empty directory included); otherwise the process exits with code 1
\* having listed exactly the entries that are not allow-listed, and no fetch,
\* environment initialization or install is attempted.
C2_ConflictsPartitionPreExistingRoot ==
    (Has(started, "checkDirForConflicts") /\ preRoot # NoDir) =>
        LET bad == { f \in readdirSync(preRoot) : f \notin validFiles }
        IN IF bad = {}
           THEN /\ Has(completed, "checkDirForConflicts")
                /\ listed = {}
                /\ failure # "conflicts"
           ELSE /\ pc = "exited"
                /\ exitCode = <<1>>
                /\ listed = bad
                /\ strategy = {}
                /\ spawned = <<>>
                /\ ~Has(started, "getStarterTheme")
                /\ ~Has(started, "envCreate")
                /\ ~Has(started, "installThemeDeps")

C2_Witness ==
    /\ pc = "exited"
    /\ failure = "conflicts"
    /\ preRoot = EmptyDir \cup { <<GIT>>, <<README>> }
    /\ listed = {README}

\* C3: after a successful content fetch (copy or clone) the project root has
\* no entry named .git or .hg, whatever the starter held and whatever the
\* root held before.
C3_NoVcsEntryAfterFetch ==
    Has(completed, "getStarterTheme") =>
        /\ GIT \notin readdirSync(fsRoot)
        /\ HG \notin readdirSync(fsRoot)

\* C4: right after a successful local copy, every entry of the starter is
\* under the project root unless it is at or below a .git or .hg directory or
\* has a node_modules directory among its components, and none of those
\* excluded entries was put under the project root.
C4_CopyOmitsExactlyVcsAndDependencyCache ==
    (pc = "envCreate" /\ strategy = {"copy"}) =>
        \A p \in starterTree :
            IF \E i \in 1..Len(p) : p[i] \in {GIT, HG, NM}
            THEN p \in fsRoot => p \in preRoot
            ELSE p \in fsRoot

\* C5: an invalid name, conflicting files, a missing local starter and a
\* failed clone each end the run with process exit code 1, and environment
\* initialization, installation and the success event do not happen.
C5_NamedFailuresExitWithCode1 ==
    failure \in {"invalidName", "conflicts", "missingStarter", "cloneFailed"} =>
        /\ exitCode = <<1>>
        /\ ~Has(started, "envCreate")
        /\ ~Has(started, "installThemeDeps")
        /\ ~EventSent("create-slate-theme:success")

\* C6: the steps of a run begin in the fixed order, each only after the one
\* before it has completed without failure; the start event is sent exactly
\* when its step is done, and the success event only when fetch, environment
\* initialization and installation have all completed.
C6_StepsInLinearOrder ==
    /\ IsPrefix(started, Order)
    /\ IsPrefix(completed, Order)
    /\ Len(completed) <= Len(started)
    /\ Len(started) <= Len(completed) + 1
    /\ EventSent("create-slate-theme:start") <=> Has(completed, "start")
    /\ EventSent("create-slate-theme:success") <=> Has(completed, "success")
    /\ EventSent("create-slate-theme:success") =>
         /\ Has(completed, "getStarterTheme")
         /\ Has(completed, "envCreate")
         /\ Has(completed, "installThemeDeps")
    /\ (<<ENVFILE>> \in fsRoot \/ failure = "envFailed") =>
         /\ Has(completed, "getStarterTheme")
         /\ PackageManagerSpawned => Has(completed, "envCreate")

C6_Witness ==
    /\ pc = "resolved"
    /\ completed = Order
    /\ PackageManagerSpawned
    /\ Len(events) = 2

\* C7: while skipInstall is true no package manager is spawned and the
\* working directory stays what it was; the install step completes, and a
\* run that resolves has sent the success event.
C7_SkipInstallSpawnsNothing ==
    (pc # "idle" /\ options.skipInstall) =>
        /\ ~PackageManagerSpawned
        /\ cwd = CwdAtInvoke
        /\ Has(started, "installThemeDeps") =>
             /\ Has(completed, "installThemeDeps")
             /\ pc \in {"analyticsSuccess", "resolved"}
        /\ pc = "resolved" => EventSent("create-slate-theme:success")

C7_Witness ==
    /\ pc = "resolved"
    /\ "skipInstall" \in DOMAIN flags
    /\ flags.skipInstall
    /\ Has(completed, "installThemeDeps")
    /\ EventSent("create-slate-theme:success")

\* C8: a run that reaches the fetch step attempts the clone and not the copy
\* when the starter reference parses as a hosted-repository locator, and the
\* copy and not the clone otherwise.
C8_StrategyFollowsStarterReference ==
    Has(started, "getStarterTheme") =>
        IF fromUrl(starter) # NoHost
        THEN strategy = {"clone"} /\ GitSpawned
        ELSE strategy = {"copy"} /\ ~GitSpawned

C8_Witness ==
    /\ Has(completed, "getStarterTheme")
    /\ strategy = {"clone"}
    /\ starter.scheme = ""
    /\ starter.committish = ""

\* C9: whenever an install that was not skipped has finished, with the
\* subprocess successful or failed, the working directory is what it was
\* before the step.
C9_CwdRestoredAfterInstall ==
    (PackageManagerSpawned /\ pc # "installing") => cwd = prevDir

\* C10: in every invocation an option its flags do not set has its default
\* value (skipInstall false, verbose false), so an invocation that does not
\* set skipInstall and completes the install step has run the package manager.
C10_UnsetOptionsKeepDefaults ==
    pc # "idle" =>
        /\ \A k \in OptionKeys \ DOMAIN flags :
               options[k] = InitialDefaultOptions[k]
        /\ ("skipInstall" \notin DOMAIN flags /\ Has(completed, "installThemeDeps"))
              => PackageManagerSpawned

=============================================================================
